---- MODULE Spec2Model ----
(***************************************************************************)
(* nestac: path-string access into nested JSON / TOML values.              *)
(*                                                                         *)
(* Strings are sequences of one-character strings, so that splitting a     *)
(* path on a separator and matching the index pattern are computed the way *)
(* the library computes them.  A tree value is a record                    *)
(*   [t |-> "scalar", v |-> s]      a string / number / bool / null        *)
(*   [t |-> "map",    e |-> <<[k |-> key, v |-> value], ...>>]             *)
(*   [t |-> "seq",    e |-> <<value, ...>>]                                *)
(* where the entries of a map are listed in the map's iteration order.     *)
(* An Option is a sequence of length 0 (None) or 1 (Some).                 *)
(***************************************************************************)
EXTENDS Integers, Sequences, FiniteSets, TLC

VARIABLES
    lib,        \* "json" or "toml": which pair of modules the caller uses
    data,       \* the document the caller owns
    path,       \* the path string given to read and update
    separator,  \* the separator argument, an Option
    new_value,  \* the value given to update
    op,         \* the last call made: "none", "read", "update", "get_paths",
                \* "json_get_paths"
    ret,        \* what the last call returned, or the panic it ended in
    old_data,   \* the document before the last call
    label       \* the symbol argument of the last json_get_paths, an Option

vars == <<lib, data, path, separator, new_value, op, ret, old_data, label>>

(* ------------------------------ bounds --------------------------------- *)

\* longest path, in tokens, that a call is given
MaxTokens == 3

(* ------------------------------ options -------------------------------- *)

None == <<>>

Some(x) == <<x>>

IsSome(o) == Len(o) = 1

(* ------------------------------ strings -------------------------------- *)

\* the characters the regex class \d accepts that are ASCII digits, in order
AsciiDigits == <<"0", "1", "2", "3", "4", "5", "6", "7", "8", "9">>

\* a decimal digit outside ASCII (ARABIC-INDIC DIGIT THREE), which \d accepts
\* too because the regex crate's \d is Unicode-aware
UnicodeDigit == "u0663"

IsAsciiDigit(c) == \E i \in 1..Len(AsciiDigits) : AsciiDigits[i] = c

IsRegexDigit(c) == IsAsciiDigit(c) \/ c = UnicodeDigit

DigitValue(c) == (CHOOSE i \in 1..Len(AsciiDigits) : AsciiDigits[i] = c) - 1

\* usize::MAX of a 64-bit target, 18446744073709551615, as its digits
UsizeMaxDigits ==
    <<1, 8, 4, 4, 6, 7, 4, 4, 0, 7, 3, 7, 0, 9, 5, 5, 1, 6, 1, 5>>

StartsWith(s, p) == Len(s) >= Len(p) /\ SubSeq(s, 1, Len(p)) = p

Drop(s, n) == SubSeq(s, n + 1, Len(s))

RECURSIVE SplitAcc(_, _, _)
SplitAcc(s, sep, cur) ==
    IF s = <<>> THEN <<cur>>
    ELSE IF StartsWith(s, sep)
         THEN <<cur>> \o SplitAcc(Drop(s, Len(sep)), sep, <<>>)
         ELSE SplitAcc(Tail(s), sep, Append(cur, Head(s)))

\* str::split(pattern) for a non-empty pattern: at least one token
Split(s, sep) == SplitAcc(s, sep, <<>>)

\* UnwrapOrDot with the separator argument ignored
UnwrapOrDotIgnoringSeparator(sep) == <<".">>

\* separator.unwrap_or(".")
UnwrapOrDot(sep) == IF IsSome(sep) THEN sep[1] ELSE <<".">>

RECURSIVE Join(_, _)
Join(tokens, sep) ==
    IF Len(tokens) = 0 THEN <<>>
    ELSE IF Len(tokens) = 1 THEN tokens[1]
    ELSE tokens[1] \o sep \o Join(Tail(tokens), sep)

\* Regex ^\[(\d+)\]$ : the capture group, or None
Captures(token) ==
    IF /\ Len(token) >= 3
       /\ token[1] = "["
       /\ token[Len(token)] = "]"
       /\ \A i \in 2..(Len(token) - 1) : IsRegexDigit(token[i])
    THEN Some(SubSeq(token, 2, Len(token) - 1))
    ELSE None

RECURSIVE StripZeros(_)
StripZeros(ds) ==
    IF Len(ds) > 1 /\ Head(ds) = 0 THEN StripZeros(Tail(ds)) ELSE ds

RECURSIVE DigitsLess(_, _)
\* lexicographic order of two digit sequences of the same length
DigitsLess(a, b) ==
    IF a = <<>> THEN FALSE
    ELSE IF Head(a) # Head(b) THEN Head(a) < Head(b)
    ELSE DigitsLess(Tail(a), Tail(b))

\* the number exceeds usize::MAX
Overflows(ds) ==
    LET s == StripZeros(ds) IN
    \/ Len(s) > Len(UsizeMaxDigits)
    \/ Len(s) = Len(UsizeMaxDigits) /\ DigitsLess(UsizeMaxDigits, s)

RECURSIVE Horner(_, _)
\* the number a digit sequence denotes; numbers of ten digits and more are
\* all represented by 10^9, which is past the end of every sequence here
Horner(ds, acc) ==
    IF ds = <<>> THEN acc
    ELSE IF acc >= 10^8 THEN 10^9
    ELSE Horner(Tail(ds), acc * 10 + Head(ds))

\* str::parse::<usize>(): Some(n), or None for Err (a character that is not
\* an ASCII digit, or a number above usize::MAX)
ParseUsize(text) ==
    IF \E i \in 1..Len(text) : ~IsAsciiDigit(text[i]) THEN None
    ELSE LET ds == [i \in 1..Len(text) |-> DigitValue(text[i])] IN
         IF Overflows(ds) THEN None ELSE Some(Horner(ds, 0))

\* match re_vec_idx.captures(token) { Some(cap) => Some(cap[1].parse().unwrap()), _ => None }
\* panic: the unwrap failed; otherwise idx is the Option<usize>
VecIdx(token) ==
    LET cap == Captures(token) IN
    IF ~IsSome(cap) THEN [panic |-> FALSE, idx |-> None]
    ELSE LET n == ParseUsize(cap[1]) IN
         IF IsSome(n) THEN [panic |-> FALSE, idx |-> n]
         ELSE [panic |-> TRUE, idx |-> None]

RECURSIVE NatDigits(_)
NatDigits(n) ==
    IF n < 10 THEN <<AsciiDigits[n + 1]>>
    ELSE Append(NatDigits(n \div 10), AsciiDigits[(n % 10) + 1])

\* usize::to_string() / format!("{}", index)
to_string(n) == NatDigits(n)

(* ------------------------------ values --------------------------------- *)

Scalar(s) == [t |-> "scalar", v |-> s]

Map(entries) == [t |-> "map", e |-> entries]

Array(elems) == [t |-> "seq", e |-> elems]

Entry(key, val) == [k |-> key, v |-> val]

IsMap(value) == value.t = "map"

IsArray(value) == value.t = "seq"

\* position of key in the entries of a map, 0 when absent
KeyPos(entries, key) ==
    IF \E i \in 1..Len(entries) : entries[i].k = key
    THEN CHOOSE i \in 1..Len(entries) : entries[i].k = key
    ELSE 0

\* Value::get(&str): the entry of an object / table, None for anything else
GetKey(value, key) ==
    IF IsMap(value) /\ KeyPos(value.e, key) > 0
    THEN Some(value.e[KeyPos(value.e, key)].v)
    ELSE None

\* Value::get(usize): the element of an array, None for anything else
GetIdx(value, idx) ==
    IF IsArray(value) /\ idx < Len(value.e) THEN Some(value.e[idx + 1])
    ELSE None

\* MapInsert that never looks for the key: the entry is added at pos and
\* nothing is displaced
MapInsertWithoutLookup(entries, key, val, pos) ==
    LET p == IF pos > Len(entries) + 1 THEN Len(entries) + 1 ELSE pos IN
    [old |-> None,
     e   |-> SubSeq(entries, 1, p - 1) \o <<[k |-> key, v |-> val]>>
               \o SubSeq(entries, p, Len(entries))]

\* MapInsert that takes a present key out and puts it back at pos
MapInsertMovingKey(entries, key, val, pos) ==
    LET i == KeyPos(entries, key)
        others == IF i > 0
                  THEN SubSeq(entries, 1, i - 1)
                          \o SubSeq(entries, i + 1, Len(entries))
                  ELSE entries
        p == IF pos > Len(others) + 1 THEN Len(others) + 1 ELSE pos
    IN  [old |-> IF i > 0 THEN Some(entries[i].v) ELSE None,
         e   |-> SubSeq(others, 1, p - 1) \o <<[k |-> key, v |-> val]>>
                   \o SubSeq(others, p, Len(others))]

\* Map::insert(key, value): the previous value, and the entries afterwards.
\* A present key keeps its place.  Where a new key lands depends on the map
\* type the build selects (sorted or insertion-ordered): any place, pos.
MapInsert(entries, key, val, pos) ==
    LET i == KeyPos(entries, key) IN
    IF i > 0
    THEN [old |-> Some(entries[i].v),
          e   |-> [entries EXCEPT ![i] = Entry(key, val)]]
    ELSE LET p == IF pos > Len(entries) + 1 THEN Len(entries) + 1 ELSE pos IN
         [old |-> None,
          e   |-> SubSeq(entries, 1, p - 1) \o <<Entry(key, val)>>
                    \o SubSeq(entries, p, Len(entries))]

\* WithKey that keeps no other entry of the map
WithKeyAlone(value, key, child) == Map(<<Entry(key, child)>>)

\* the value with the child under key replaced (the write through a &mut)
WithKey(value, key, child) ==
    Map([value.e EXCEPT ![KeyPos(value.e, key)] = Entry(key, child)])

WithIdx(value, idx, child) == Array([value.e EXCEPT ![idx + 1] = child])

(* ------------------------------ results -------------------------------- *)

\* What a call of update did.  fault: "none", or the unwrap / index that
\* panicked; val: the Option returned; doc: the node the loop stands on, as
\* it is after the call (an Option); parent: sel_data when the last token
\* was reached; after: that node once the last token was applied.

\* the last token was applied to sel_data: old came back, node is the result
FinalOk(sel_data, old, node) ==
    [fault |-> "none", val |-> old, doc |-> Some(node),
     parent |-> sel_data, after |-> Some(node)]

\* a panic at the last token (sel_data may be None), nothing written
FinalPanic(why, sel_data) ==
    [fault |-> why, val |-> None, doc |-> sel_data,
     parent |-> sel_data, after |-> None]

\* a panic before the last token was reached
NavPanic(why, sel_data) ==
    [fault |-> why, val |-> None, doc |-> sel_data,
     parent |-> None, after |-> None]

\* the result r of the rest of the loop, seen from the node above, which is
\* node after the call: whatever was written below through the &mut is
\* written in it, whether the call returned or panicked afterwards
Outer(r, sel_data, node) == [r EXCEPT !.doc = Some(node)]

(* ------------------------------ json::read ----------------------------- *)

RECURSIVE JsonReadLoop(_, _)
\* the for loop of read: every token is classified (and its digits parsed)
\* before sel_data is looked at
JsonReadLoop(tokens, sel_data) ==
    IF tokens = <<>> THEN [fault |-> "none", val |-> sel_data]
    ELSE LET token == Head(tokens)
             vec_idx == VecIdx(token)
         IN  IF vec_idx.panic THEN [fault |-> "parse", val |-> None]
             ELSE JsonReadLoop(Tail(tokens),
                    IF ~IsSome(sel_data) THEN None
                    ELSE IF IsSome(vec_idx.idx)
                         THEN GetIdx(sel_data[1], vec_idx.idx[1])
                         ELSE GetKey(sel_data[1], token))

json_read(p, value, sep) ==
    JsonReadLoop(Split(p, UnwrapOrDot(sep)), Some(value))

(* ------------------------------ toml::read ----------------------------- *)

\* the first token is looked up in the root table as it stands; the rest go
\* through the same loop as in the JSON reader
toml_read(p, table, sep) ==
    LET tokens == Split(p, UnwrapOrDot(sep))
        sel_data == GetKey(table, tokens[1])
    IN  IF ~IsSome(sel_data) THEN [fault |-> "none", val |-> None]
        ELSE JsonReadLoop(Tail(tokens), sel_data)

(* ------------------------------ json_update ---------------------------- *)

RECURSIVE JsonUpdateLoop(_, _, _, _)
\* the while loop of json_update on the node sel_data (an Option) with the
\* tokens still to come
JsonUpdateLoop(sel_data, tokens, value, pos) ==
    LET token == Head(tokens) IN
    IF Len(tokens) = 1
    THEN \* last token: unwrap().as_object_mut().unwrap().insert(token, ..)
         IF ~IsSome(sel_data) THEN FinalPanic("unwrap_none", sel_data)
         ELSE IF ~IsMap(sel_data[1]) THEN FinalPanic("not_object", sel_data)
         ELSE LET ins == MapInsert(sel_data[1].e, token, value, pos)
              IN  FinalOk(sel_data, ins.old, Map(ins.e))
    ELSE \* sel_data = sel_data.unwrap().get_mut(token)
         IF ~IsSome(sel_data) THEN NavPanic("unwrap_none", sel_data)
         ELSE LET r == JsonUpdateLoop(GetKey(sel_data[1], token),
                                      Tail(tokens), value, pos)
              IN  Outer(r, sel_data,
                        IF IsSome(r.doc)
                        THEN WithKey(sel_data[1], token, r.doc[1])
                        ELSE sel_data[1])

json_update(value, p, sep, new, pos) ==
    LET r == JsonUpdateLoop(Some(value), Split(p, UnwrapOrDot(sep)), new, pos)
    IN  [r EXCEPT !.doc = r.doc[1]]

(* ------------------------------ toml::update --------------------------- *)

\* IndexAssign that grows the array when the index is past its end
IndexAssignExtending(sel_data, idx, value) ==
    IF idx >= Len(sel_data[1].e)
    THEN FinalOk(sel_data, None, Array(Append(sel_data[1].e, value)))
    ELSE FinalOk(sel_data, Some(sel_data[1].e[idx + 1]),
                 WithIdx(sel_data[1], idx, value))

\* IndexAssign that pushes the value before it indexes past the end
IndexAssignWritingFirst(sel_data, idx, value) ==
    IF idx >= Len(sel_data[1].e)
    THEN [fault |-> "bounds", val |-> None,
          doc |-> Some(Array(Append(sel_data[1].e, value))),
          parent |-> sel_data, after |-> None]
    ELSE FinalOk(sel_data, Some(sel_data[1].e[idx + 1]),
                 WithIdx(sel_data[1], idx, value))

\* let val = tmp[idx].clone(); tmp[idx] = new_value; Some(val)
\* on the array sel_data: indexing past the end panics
IndexAssign(sel_data, idx, value) ==
    IF idx >= Len(sel_data[1].e) THEN FinalPanic("bounds", sel_data)
    ELSE FinalOk(sel_data, Some(sel_data[1].e[idx + 1]),
                 WithIdx(sel_data[1], idx, value))

RECURSIVE TomlUpdateLoop(_, _, _, _)
\* the while loop of update, entered with the second token
TomlUpdateLoop(sel_data, tokens, value, pos) ==
    LET token == Head(tokens)
        cap == Captures(token)
        idx == ParseUsize(cap[1])
    IN
    IF Len(tokens) = 1
    THEN IF IsSome(cap)
         THEN \* tmp = sel_data.unwrap().as_array_mut().unwrap()
              IF ~IsSome(idx) THEN FinalPanic("parse", sel_data)
              ELSE IF ~IsSome(sel_data)
                   THEN FinalPanic("unwrap_none", sel_data)
              ELSE IF ~IsArray(sel_data[1])
                   THEN FinalPanic("not_array", sel_data)
              ELSE IndexAssign(sel_data, idx[1], value)
         ELSE \* sel_data.unwrap().as_table_mut().unwrap().insert(..)
              IF ~IsSome(sel_data) THEN FinalPanic("unwrap_none", sel_data)
              ELSE IF ~IsMap(sel_data[1])
                   THEN FinalPanic("not_table", sel_data)
              ELSE LET ins == MapInsert(sel_data[1].e, token, value, pos)
                   IN  FinalOk(sel_data, ins.old, Map(ins.e))
    ELSE IF IsSome(cap)
         THEN \* sel_data.unwrap().as_array_mut().unwrap().get_mut(idx)
              IF ~IsSome(idx) THEN NavPanic("parse", sel_data)
              ELSE IF ~IsSome(sel_data) THEN NavPanic("unwrap_none", sel_data)
              ELSE IF ~IsArray(sel_data[1]) THEN NavPanic("not_array", sel_data)
              ELSE LET r == TomlUpdateLoop(GetIdx(sel_data[1], idx[1]),
                                           Tail(tokens), value, pos)
                   IN  Outer(r, sel_data,
                             IF IsSome(r.doc)
                             THEN WithIdx(sel_data[1], idx[1], r.doc[1])
                             ELSE sel_data[1])
         ELSE \* sel_data.unwrap().get_mut(token)
              IF ~IsSome(sel_data) THEN NavPanic("unwrap_none", sel_data)
              ELSE LET r == TomlUpdateLoop(GetKey(sel_data[1], token),
                                           Tail(tokens), value, pos)
                   IN  Outer(r, sel_data,
                             IF IsSome(r.doc)
                             THEN WithKey(sel_data[1], token, r.doc[1])
                             ELSE sel_data[1])

\* the root is a table, never a Value: one token is inserted into it at
\* once, otherwise the first token is looked up in it and the loop runs
toml_update(table, p, sep, new, pos) ==
    LET tokens == Split(p, UnwrapOrDot(sep))
        token == tokens[1]
    IN  IF Len(tokens) = 1
        THEN LET ins == MapInsert(table.e, token, new, pos)
                 r == FinalOk(Some(table), ins.old, Map(ins.e))
             IN  [r EXCEPT !.doc = r.doc[1]]
        ELSE LET r == TomlUpdateLoop(GetKey(table, token), Tail(tokens),
                                     new, pos)
             IN  [r EXCEPT !.doc = IF IsSome(r.doc)
                                   THEN WithKey(table, token, r.doc[1])
                                   ELSE table]

(* ------------------------------ json::get_paths ------------------------ *)

Dot == <<".">>

\* JsonPushes that pushes the entries of a map last entry first
JsonPushesLastFirst(curr_path, current_value) ==
    IF IsMap(current_value)
    THEN [i \in 1..Len(current_value.e) |->
            LET entry == current_value.e[Len(current_value.e) + 1 - i] IN
            [p |-> Some(IF IsSome(curr_path)
                        THEN curr_path[1] \o Dot \o entry.k
                        ELSE entry.k),
             v |-> entry.v]]
    ELSE IF IsArray(current_value) /\ IsSome(curr_path)
    THEN [i \in 1..Len(current_value.e) |->
            [p |-> Some(curr_path[1] \o Dot \o to_string(i - 1)),
             v |-> current_value.e[i]]]
    ELSE <<>>

\* the children a popped (path, value) pushes, in the order it pushes them
JsonPushes(curr_path, current_value) ==
    IF IsMap(current_value)
    THEN [i \in 1..Len(current_value.e) |->
            [p |-> Some(IF IsSome(curr_path)
                        THEN curr_path[1] \o Dot \o current_value.e[i].k
                        ELSE current_value.e[i].k),
             v |-> current_value.e[i].v]]
    ELSE IF IsArray(current_value) /\ IsSome(curr_path)
    THEN [i \in 1..Len(current_value.e) |->
            [p |-> Some(curr_path[1] \o Dot \o to_string(i - 1)),
             v |-> current_value.e[i]]]
    ELSE <<>>

RECURSIVE JsonPathsLoop(_, _)
\* while let Some(..) = queue.pop(): queue is used as a stack
JsonPathsLoop(queue, paths) ==
    IF queue = <<>> THEN paths
    ELSE LET top == queue[Len(queue)]
             rest == SubSeq(queue, 1, Len(queue) - 1)
         IN  JsonPathsLoop(rest \o JsonPushes(top.p, top.v),
                           IF IsSome(top.p) THEN Append(paths, top.p[1])
                           ELSE paths)

json_paths_get_paths(value) ==
    JsonPathsLoop(<<[p |-> None, v |-> value]>>, <<>>)

(* ------------------------------ json_get_paths ------------------------- *)

DefaultSymbol == <<"$">>

RECURSIVE json_get_paths(_, _)
RECURSIVE JsonChildPaths(_, _, _)
\* JsonChildPaths that stops after the i-th child
JsonChildPathsOfOneChild(value, symbol, i) ==
    IF i > Len(value.e) THEN <<>>
    ELSE LET sub == IF IsMap(value)
                    THEN json_get_paths(value.e[i].v, Some(value.e[i].k))
                    ELSE json_get_paths(value.e[i], Some(to_string(i - 1)))
         IN  [j \in 1..Len(sub) |-> symbol \o Dot \o sub[j]]

\* the for loop over the children from the i-th on: every path of a child,
\* found with the child's key or position as its symbol, behind symbol
JsonChildPaths(value, symbol, i) ==
    IF i > Len(value.e) THEN <<>>
    ELSE LET sub == IF IsMap(value)
                    THEN json_get_paths(value.e[i].v, Some(value.e[i].k))
                    ELSE json_get_paths(value.e[i], Some(to_string(i - 1)))
         IN  [j \in 1..Len(sub) |-> symbol \o Dot \o sub[j]]
               \o JsonChildPaths(value, symbol, i + 1)

json_get_paths(value, symbol) ==
    LET sym == IF IsSome(symbol) THEN symbol[1] ELSE DefaultSymbol IN
    IF IsMap(value) \/ IsArray(value)
    THEN <<sym>> \o JsonChildPaths(value, sym, 1)
    ELSE <<sym>>

(* ------------------------------ toml::get_paths ------------------------ *)

\* TomlPushes that pushes the entries of a table last entry first
TomlPushesLastFirst(current_path, current_value) ==
    IF IsMap(current_value)
    THEN [i \in 1..Len(current_value.e) |->
            LET entry == current_value.e[Len(current_value.e) + 1 - i] IN
            [p |-> current_path \o Dot \o entry.k, v |-> entry.v]]
    ELSE IF IsArray(current_value)
    THEN [i \in 1..Len(current_value.e) |->
            [p |-> current_path \o Dot \o to_string(i - 1),
             v |-> current_value.e[i]]]
    ELSE <<>>

\* the children a popped (path, value) pushes
TomlPushes(current_path, current_value) ==
    IF IsMap(current_value)
    THEN [i \in 1..Len(current_value.e) |->
            [p |-> current_path \o Dot \o current_value.e[i].k,
             v |-> current_value.e[i].v]]
    ELSE IF IsArray(current_value)
    THEN [i \in 1..Len(current_value.e) |->
            [p |-> current_path \o Dot \o to_string(i - 1),
             v |-> current_value.e[i]]]
    ELSE <<>>

RECURSIVE TomlPathsLoop(_, _)
TomlPathsLoop(queue, paths) ==
    IF queue = <<>> THEN paths
    ELSE LET top == queue[Len(queue)]
             rest == SubSeq(queue, 1, Len(queue) - 1)
         IN  TomlPathsLoop(rest \o TomlPushes(top.p, top.v),
                           Append(paths, top.p))

RECURSIVE TomlKeysLoop(_, _, _)
\* for key in data.keys(): the stack is drained before the next key
TomlKeysLoop(table, i, paths) ==
    IF i > Len(table.e) THEN paths
    ELSE TomlKeysLoop(table, i + 1,
           TomlPathsLoop(<<[p |-> table.e[i].k, v |-> table.e[i].v]>>, paths))

toml_get_paths(table) == TomlKeysLoop(table, 1, <<>>)

(* ------------------------------ inputs --------------------------------- *)

KeyA == <<"a">>

KeyB == <<"b">>

\* a key that holds the default separator
KeyDotted == <<"a", ".", "b">>

\* a key that reads like an index token
KeyBracket == <<"[", "0", "]">>

Keys == {KeyA, KeyB, KeyDotted, KeyBracket}

\* an index token whose twenty digits are above usize::MAX
BigIndex == <<"[">> \o [i \in 1..Len(UsizeMaxDigits) |-> "9"] \o <<"]">>

\* the tokens paths are made of; under the default separator KeyDotted is
\* the two tokens a and b
Tokens == {KeyA, KeyDotted, <<"[", "0", "]">>, <<"[", "1", "]">>}

\* the token sequences with the overflowing index in them
OverflowSeqs ==
    {<<BigIndex>>} \cup {<<t, BigIndex>> : t \in Tokens}
        \cup {<<BigIndex, t>> : t \in Tokens}

\* the index pattern with a digit in it that is not an ASCII digit
UnicodeIndex == <<"[", UnicodeDigit, "]">>

\* tokens that come close to the index pattern, and the empty token
OddTokens ==
    {<<"0">>, <<"-", "1">>, <<"[", "1">>, <<"[", "]">>,
     <<"[", "-", "1", "]">>, <<>>, UnicodeIndex}

\* the token sequences with one of them in first or in second place
OddSeqs ==
    {<<t>> : t \in OddTokens} \cup {<<KeyA, t>> : t \in OddTokens}
        \cup {<<t, KeyA>> : t \in OddTokens}

TokenSeqs ==
    UNION {[1..n -> Tokens] : n \in 1..MaxTokens}
        \cup OverflowSeqs \cup OddSeqs

Separators == {None, Some(<<"@">>)}

X == Scalar("x")

Y == Scalar("y")

\* the containers that hold scalars only
FlatContainers ==
    {Map(<<Entry(k, X)>>) : k \in Keys}
        \cup {Map(<<Entry(KeyA, X), Entry(KeyB, Y)>>),
              Array(<<X>>), Array(<<X, Y>>)}

\* the containers that hold one flat container, alone or beside a scalar
NestedContainers ==
    {Map(<<Entry(KeyA, c)>>) : c \in FlatContainers}
        \cup {Map(<<Entry(KeyB, Y), Entry(KeyA, c)>>) : c \in FlatContainers}
        \cup {Array(<<X, c>>) : c \in FlatContainers}

\* a nested container of each kind one level further down
DeepContainers ==
    {Map(<<Entry(KeyA, c)>>) :
        c \in {n \in NestedContainers :
                 \E f \in {Map(<<Entry(KeyA, X)>>), Array(<<X, Y>>)} :
                    n \in {Map(<<Entry(KeyA, f)>>), Array(<<X, f>>)}}}

\* the document of the get_paths examples: two keys, under each a map of
\* one scalar
ExampleDocument ==
    Map(<<Entry(KeyA, Map(<<Entry(KeyB, X)>>)),
          Entry(KeyB, Map(<<Entry(KeyA, Y)>>))>>)

\* a map with a key for each of the literal odd tokens
OddKeysMap ==
    Map(<<Entry(<<"0">>, X), Entry(<<"-", "1">>, Y), Entry(<<"[", "1">>, X),
          Entry(<<"[", "]">>, Y), Entry(<<"[", "-", "1", "]">>, X),
          Entry(<<>>, Y), Entry(KeyA, Map(<<Entry(KeyA, X)>>))>>)

OddDocuments == {OddKeysMap, Map(<<Entry(KeyA, OddKeysMap)>>)}

\* a JSON document is any Value; a TOML document is a table
JsonDocuments ==
    {X} \cup FlatContainers \cup NestedContainers \cup DeepContainers
        \cup {ExampleDocument} \cup OddDocuments

TomlDocuments == {d \in JsonDocuments : IsMap(d)}

NewValues == {Scalar("z")}

RECURSIVE Widest(_)
\* the largest number of entries of a map of the value
Widest(value) ==
    IF IsMap(value)
    THEN LET below == {Widest(value.e[i].v) : i \in 1..Len(value.e)}
                        \cup {Len(value.e)}
         IN  CHOOSE w \in below : \A u \in below : u <= w
    ELSE IF IsArray(value) /\ Len(value.e) > 0
    THEN LET below == {Widest(value.e[i]) : i \in 1..Len(value.e)}
         IN  CHOOSE w \in below : \A u \in below : u <= w
    ELSE 0

\* the places a new key may take in a map of the document
InsertPlaces(value) == 1..(Widest(value) + 1)

(* ------------------------------ the caller ----------------------------- *)

\* of a call, what the caller sees (and, of update, where it wrote)
Result(fault, val, parent, after) ==
    [fault |-> fault, val |-> val, parent |-> parent, after |-> after]

NoResult == Result("none", None, None, None)

Init ==
    /\ lib \in {"json", "toml"}
    /\ data \in (IF lib = "json" THEN JsonDocuments ELSE TomlDocuments)
    /\ separator \in Separators
    /\ \E tokens \in TokenSeqs :
          path = Join(tokens, IF separator = None THEN Dot ELSE separator[1])
    /\ new_value \in NewValues
    /\ op = "none"
    /\ ret = NoResult
    /\ old_data = data
    /\ label = None

\* the symbol arguments json_get_paths is called with
Symbols == {None, Some(<<"r">>)}

\* a panic ends the caller; until then it may make any call on its document
Running == ret.fault = "none"

Call(name, result, doc) ==
    /\ op' = name
    /\ ret' = result
    /\ old_data' = data
    /\ data' = doc
    /\ label' = None
    /\ UNCHANGED <<lib, path, separator, new_value>>

JsonRead ==
    /\ Running /\ lib = "json"
    /\ LET r == json_read(path, data, separator)
       IN  Call("read", Result(r.fault, r.val, None, None), data)

TomlRead ==
    /\ Running /\ lib = "toml"
    /\ LET r == toml_read(path, data, separator)
       IN  Call("read", Result(r.fault, r.val, None, None), data)

JsonUpdate ==
    /\ Running /\ lib = "json"
    /\ \E pos \in InsertPlaces(data) :
          LET r == json_update(data, path, separator, new_value, pos)
          IN  Call("update", Result(r.fault, r.val, r.parent, r.after),
                   r.doc)

TomlUpdate ==
    /\ Running /\ lib = "toml"
    /\ \E pos \in InsertPlaces(data) :
          LET r == toml_update(data, path, separator, new_value, pos)
          IN  Call("update", Result(r.fault, r.val, r.parent, r.after),
                   r.doc)

JsonGetPaths ==
    /\ Running /\ lib = "json"
    /\ Call("get_paths",
            Result("none", json_paths_get_paths(data), None, None), data)

JsonGetPathsRooted ==
    /\ Running /\ lib = "json"
    /\ \E sym \in Symbols :
          /\ op' = "json_get_paths"
          /\ ret' = Result("none", json_get_paths(data, sym), None, None)
          /\ old_data' = data
          /\ label' = sym
          /\ UNCHANGED <<lib, data, path, separator, new_value>>

TomlGetPaths ==
    /\ Running /\ lib = "toml"
    /\ Call("get_paths",
            Result("none", toml_get_paths(data), None, None), data)

Next ==
    \/ JsonRead
    \/ TomlRead
    \/ JsonUpdate
    \/ TomlUpdate
    \/ JsonGetPaths
    \/ JsonGetPathsRooted
    \/ TomlGetPaths

Spec == Init /\ [][Next]_vars

(* ------------------------------ vocabulary of the properties ----------- *)

\* the tokens of the call's path, and the last of them
CallTokens == Split(path, IF separator = None THEN Dot ELSE separator[1])

LastToken == CallTokens[Len(CallTokens)]

\* the token reads [digits]
IsIndexToken(token) == IsSome(Captures(token))

\* the number in an index token is n or more (an overflowing one is)
IndexAtLeast(token, n) ==
    LET i == ParseUsize(Captures(token)[1]) IN ~IsSome(i) \/ i[1] >= n

\* the reader of the library in use
LibRead(p, doc, sep) ==
    IF lib = "json" THEN json_read(p, doc, sep) ELSE toml_read(p, doc, sep)

\* the path made of the first k tokens of the call's path
PrefixPath(k) ==
    Join(SubSeq(CallTokens, 1, k), IF separator = None THEN Dot ELSE separator[1])

\* reading the first k tokens in doc returns absent
PrefixAbsent(k, doc) ==
    LET r == LibRead(PrefixPath(k), doc, separator)
    IN  r.fault = "none" /\ r.val = None

\* the node read addresses with the path less its last token: the root for
\* a path of one token (an Option)
ReadParent(doc) ==
    IF Len(CallTokens) = 1 THEN Some(doc)
    ELSE LET r == LibRead(PrefixPath(Len(CallTokens) - 1), doc, separator)
         IN  IF r.fault = "none" THEN r.val ELSE None

\* the parent container is there and is of the kind the last token
\* addresses: a Map for a Key, a Sequence that long for an Index
ParentTakesLastToken(doc) ==
    LET parent == ReadParent(doc) IN
    /\ IsSome(parent)
    /\ \/ IsMap(parent[1]) /\ ~IsIndexToken(LastToken)
       \/ /\ IsArray(parent[1])
          /\ IsIndexToken(LastToken)
          /\ ~IndexAtLeast(LastToken, Len(parent[1].e))

KeysOf(value) == {value.e[i].k : i \in 1..Len(value.e)}

(* ------------------------------ properties ----------------------------- *)

\* C1: write-then-read consistency.  When the parent container of the path
\* exists in the document (and is of the kind the last token addresses, the
\* other combinations being fatal by the Mutator's own rules), update
\* returns and a read of the same path with the same separator then gives
\* the value written; for the JSON pair and for the TOML pair, a bracketed
\* index as last token included.
WriteThenRead ==
    (op = "update" /\ ParentTakesLastToken(old_data))
        => /\ ret.fault = "none"
           /\ LET r == LibRead(path, data, separator)
              IN  r.fault = "none" /\ r.val = Some(new_value)

\* C2: displaced-value correctness.  The value update returns is the value
\* read returned for the same path and separator on the document as it was
\* before the call: absent when read gave absent, an equal value otherwise.
DisplacedValue ==
    (op = "update" /\ ret.fault = "none")
        => LET r == LibRead(path, old_data, separator)
           IN  r.fault = "none" /\ r.val = ret.val

\* C3: enumeration and lookup agree.  Every path an enumerator lists
\* (json::get_paths, json_get_paths with the default root label, toml
\* get_paths) reads, with the default separator, to a defined value.
EnumerationAgreesWithLookup ==
    (op \in {"get_paths", "json_get_paths"} /\ label = None)
        => \A i \in 1..Len(ret.val) :
              LET r == LibRead(ret.val[i], data, None)
              IN  r.fault = "none" /\ IsSome(r.val)

\* C4: the reader never faults on a missing path.  When some step of the
\* navigation fails (in particular when the first token is absent from the
\* root), read returns absent and does not abort, whatever tokens follow.
ReadOfMissingPathIsAbsent ==
    (op = "read" /\ \E k \in 1..Len(CallTokens) : PrefixAbsent(k, data))
        => ret.fault = "none" /\ ret.val = None

\* C5: a missing parent during mutation is a normal outcome.  When the path
\* has two or more tokens and a token before the last does not resolve,
\* update returns absent and raises no fault.
MissingParentIsAbsent ==
    (/\ op = "update"
     /\ \E k \in 1..(Len(CallTokens) - 1) : PrefixAbsent(k, old_data))
        => ret.fault = "none" /\ ret.val = None

\* C6: a shape mismatch on the final mutation step is fatal.  Whenever
\* update reaches a Map parent with an Index as last token, or a Sequence
\* parent with a Key as last token, the call aborts with a fault and writes
\* nothing; at every depth, the root Map under a one-token path included.
ShapeMismatchIsFatal ==
    (/\ op = "update"
     /\ IsSome(ret.parent)
     /\ \/ IsMap(ret.parent[1]) /\ IsIndexToken(LastToken)
        \/ IsArray(ret.parent[1]) /\ ~IsIndexToken(LastToken))
        => ret.fault # "none" /\ data = old_data

\* C7: an out-of-range index on the final mutation step is fatal and never
\* extends the Sequence.  With a Sequence parent of length n and a last
\* token [i], i >= n, update aborts with a fault and the Sequence (the
\* whole document) is as it was.
OutOfRangeIndexIsFatal ==
    (/\ op = "update"
     /\ IsSome(ret.parent)
     /\ IsArray(ret.parent[1])
     /\ IsIndexToken(LastToken)
     /\ IndexAtLeast(LastToken, Len(ret.parent[1].e)))
        => ret.fault # "none" /\ ret.after = None /\ data = old_data

\* the TOML mutator stood on a Sequence and indexed past its end
OutOfRangeIndexSeen ==
    /\ op = "update"
    /\ lib = "toml"
    /\ IsSome(ret.parent)
    /\ IsArray(ret.parent[1])
    /\ IsIndexToken(LastToken)
    /\ IndexAtLeast(LastToken, Len(ret.parent[1].e))
    /\ ret.fault = "bounds"
    /\ data = old_data

\* C8: Sequence replacement.  When the parent update reaches is a Sequence
\* of length n and the last token is [i], i < n, update puts new_value at
\* position i, returns the element that was there, and leaves the length
\* and every other element alone; for the JSON and for the TOML mutator.
SequenceReplacement ==
    (/\ op = "update"
     /\ IsSome(ret.parent)
     /\ IsArray(ret.parent[1])
     /\ IsIndexToken(LastToken)
     /\ ~IndexAtLeast(LastToken, Len(ret.parent[1].e)))
        => LET i == ParseUsize(Captures(LastToken)[1])[1] IN
           /\ ret.fault = "none"
           /\ ret.val = Some(ret.parent[1].e[i + 1])
           /\ ret.after = Some(Array([ret.parent[1].e EXCEPT ![i + 1] = new_value]))

At == <<"@">>

HasAt(p) == \E i \in 1..Len(p) : p[i] = "@"

\* the keys with no "@" and no index reading
PlainKeys == {KeyA, KeyB, KeyDotted}

\* the value under key k2 of the value under key k1 of doc (an Option)
GetKey2(doc, k1, k2) ==
    IF IsSome(GetKey(doc, k1)) THEN GetKey(GetKey(doc, k1)[1], k2) ELSE None

\* C10: a custom separator fully replaces the default.  With separator "@"
\* read and update split the path on "@" only: a path with no "@" in it is
\* one literal key of the root, dots included (absent when the root has no
\* such key), and k1@k2 is key k2 under key k1, whatever dots k1 and k2 hold.
CustomSeparatorReplacesDefault ==
    (separator = Some(At) /\ op \in {"read", "update"})
        => /\ (op = "read" /\ ~HasAt(path) /\ ~IsIndexToken(path))
                 => ret.fault = "none" /\ ret.val = GetKey(old_data, path)
           /\ \A k1, k2 \in PlainKeys :
                 (op = "read" /\ path = k1 \o At \o k2)
                    => /\ ret.fault = "none"
                       /\ ret.val = GetKey2(old_data, k1, k2)
           /\ (/\ op = "update" /\ ~HasAt(path) /\ ~IsIndexToken(path)
               /\ IsMap(old_data))
                 => /\ ret.fault = "none"
                    /\ ret.val = GetKey(old_data, path)
                    /\ GetKey(data, path) = Some(new_value)
           /\ \A k1, k2 \in PlainKeys :
                 (/\ op = "update" /\ path = k1 \o At \o k2
                  /\ IsSome(GetKey(old_data, k1))
                  /\ IsMap(GetKey(old_data, k1)[1]))
                    => /\ ret.fault = "none"
                       /\ ret.val = GetKey2(old_data, k1, k2)
                       /\ GetKey2(data, k1, k2) = Some(new_value)

\* with separator "@", a key that holds a dot was read below another key
DottedKeyReadWithCustomSeparator ==
    /\ op = "read"
    /\ separator = Some(At)
    /\ path = KeyA \o At \o KeyDotted
    /\ ret.fault = "none"
    /\ IsSome(ret.val)

\* the token is exactly "[", one or more ASCII digits, "]"
IsBracketedAsciiDigits(token) ==
    /\ Len(token) >= 3
    /\ token[1] = "["
    /\ token[Len(token)] = "]"
    /\ \A i \in 2..(Len(token) - 1) : IsAsciiDigit(token[i])

\* such a token whose number is above the supported integer range
IsOverflowingIndex(token) ==
    /\ IsBracketedAsciiDigits(token)
    /\ ~IsSome(ParseUsize(SubSeq(token, 2, Len(token) - 1)))

RECURSIVE Navigate(_, _)
\* the node the tokens lead to from node (Options): a bracketed token of
\* ASCII digits steps into a Sequence by position, every other token steps
\* into a Map by its literal text, and a step that cannot be made is absent
Navigate(tokens, node) ==
    IF tokens = <<>> \/ ~IsSome(node) THEN node
    ELSE LET token == Head(tokens) IN
         Navigate(Tail(tokens),
            IF IsBracketedAsciiDigits(token)
            THEN GetIdx(node[1],
                        ParseUsize(SubSeq(token, 2, Len(token) - 1))[1])
            ELSE GetKey(node[1], token))

\* C11: token classification is unambiguous and applied to every token.  A
\* read (JSON or TOML) uses a token, at any place of the path, as a Sequence
\* index iff it is "[" ASCII digits "]", and looks every other token up as a
\* Map key by its literal text: with no overflowing index in the path, read
\* returns what that navigation from the root gives.
TokenClassification ==
    (op = "read" /\ \A j \in 1..Len(CallTokens) :
                       ~IsOverflowingIndex(CallTokens[j]))
        => ret.fault = "none" /\ ret.val = Navigate(CallTokens, Some(old_data))

\* C12: index overflow is fatal for the call.  A read or an update whose
\* path holds a bracketed all-digit token above the supported integer range
\* aborts with a fault, wherever in the path the token stands and whether or
\* not the tokens before it resolved.
IndexOverflowIsFatal ==
    (op \in {"read", "update"}
       /\ \E j \in 1..Len(CallTokens) : IsOverflowingIndex(CallTokens[j]))
        => ret.fault # "none"

(* ------------------------------ vocabulary of the enumerations --------- *)

\* the children of a node in the node's own order, each with the step that
\* leads to it: the key in a Map, the decimal position in a Sequence
Children(value) ==
    IF IsMap(value)
    THEN [i \in 1..Len(value.e) |-> [s |-> value.e[i].k, v |-> value.e[i].v]]
    ELSE IF IsArray(value)
    THEN [i \in 1..Len(value.e) |-> [s |-> to_string(i - 1), v |-> value.e[i]]]
    ELSE <<>>

\* the path of the child reached by step s from the node at path p (None
\* for a node that has no path)
ChildPath(p, s) == IF IsSome(p) THEN p[1] \o Dot \o s ELSE s

RECURSIVE SumOver(_, _)
SumOver(f, n) == IF n = 0 THEN 0 ELSE f[n] + SumOver(f, n - 1)

RECURSIVE CountNodes(_)
\* the number of nodes of a value, the value itself included
CountNodes(value) ==
    LET c == Children(value)
    IN  1 + SumOver([i \in 1..Len(c) |-> CountNodes(c[i].v)], Len(c))

RECURSIVE NodesBelow(_, _)
\* the nodes strictly below value, each with its path, value being at p
NodesBelow(value, p) ==
    LET c == Children(value) IN
    UNION {{[p |-> ChildPath(p, c[i].s), v |-> c[i].v]}
              \cup NodesBelow(c[i].v, Some(ChildPath(p, c[i].s))) :
           i \in 1..Len(c)}

PathsBelow(value, p) == {n.p : n \in NodesBelow(value, p)}

RECURSIVE PreOrder(_, _)
RECURSIVE PreOrderFrom(_, _, _)
\* the node at path p, then the subtree of each child in the node's order
PreOrder(value, p) == <<p>> \o PreOrderFrom(value, p, 1)

PreOrderFrom(value, p, i) ==
    LET c == Children(value) IN
    IF i > Len(c) THEN <<>>
    ELSE PreOrder(c[i].v, ChildPath(Some(p), c[i].s))
            \o PreOrderFrom(value, p, i + 1)

Listed(out, s) == \E n \in 1..Len(out) : out[n] = s

\* the places of out that hold s (two nodes may have the same path, as key
\* "a.b" of the root and key "b" under key "a" do)
Positions(out, s) == {n \in 1..Len(out) : out[n] = s}

\* an entry s comes before an entry t
Before(out, s, t) ==
    \E a \in Positions(out, s) : \E b \in Positions(out, t) : a < b

EntriesOf(out) == {out[n] : n \in 1..Len(out)}

\* C13: rooted enumeration.  json_get_paths(D, label) returns a list that
\* starts with the root label ("$" when none is given) and holds one path
\* per node of D: the label, then the Map keys and decimal Sequence
\* positions from the root, joined by "."; children in the Map's iteration
\* order and in index order, each node right before its own subtree.
RootedEnumeration ==
    op = "json_get_paths"
        => LET root == IF IsSome(label) THEN label[1] ELSE <<"$">> IN
           /\ ret.fault = "none"
           /\ ret.val[1] = root
           /\ Len(ret.val) = CountNodes(data)
           /\ EntriesOf(ret.val) = {root} \cup PathsBelow(data, Some(root))
           /\ ret.val = PreOrder(data, root)

\* a labelled enumeration of a document three levels deep with a Sequence
RootedEnumerationSeen ==
    /\ op = "json_get_paths"
    /\ label = Some(<<"r">>)
    /\ data \in DeepContainers
    /\ \E n \in NodesBelow(data, None) : IsArray(n.v) /\ Len(n.v.e) = 2
    /\ Len(ret.val) >= 5

\* C14: unrooted enumeration is complete and exact.  json::get_paths(D) and
\* toml get_paths(D) list no entry for the root and one entry for every
\* other node, so the result is as long as D has nodes below its root,
\* whatever the type of the root.
UnrootedEnumeration ==
    op = "get_paths"
        => /\ Len(ret.val) = CountNodes(data) - 1
           /\ EntriesOf(ret.val) = PathsBelow(data, None)

\* the position an index token names
IndexOf(token) == ParseUsize(SubSeq(token, 2, Len(token) - 1))

RECURSIVE OnlySlotChanged(_, _, _)
\* before and after differ in the slot the tokens lead to and nowhere else:
\* a Map on the way is a Map with the same keys holding the same values but
\* under the token, a Sequence on the way is a Sequence of the same length
\* with the same elements but at the token's position, and the last Map may
\* have gained the last token as a key
OnlySlotChanged(before, after, tokens) ==
    LET token == Head(tokens) IN
    IF IsMap(before)
    THEN /\ IsMap(after)
         /\ Len(after.e) = Cardinality(KeysOf(after))
         /\ IF Len(tokens) = 1
            THEN KeysOf(after) = KeysOf(before) \cup {token}
            ELSE KeysOf(after) = KeysOf(before) /\ token \in KeysOf(before)
         /\ \A k \in KeysOf(before) \ {token} :
               GetKey(after, k) = GetKey(before, k)
         /\ Len(tokens) > 1
               => OnlySlotChanged(GetKey(before, token)[1],
                                  GetKey(after, token)[1], Tail(tokens))
    ELSE IF /\ IsArray(before)
            /\ IsBracketedAsciiDigits(token)
            /\ IsSome(IndexOf(token))
            /\ IndexOf(token)[1] < Len(before.e)
    THEN LET i == IndexOf(token)[1] + 1 IN
         /\ IsArray(after)
         /\ Len(after.e) = Len(before.e)
         /\ \A j \in 1..Len(before.e) : j # i => after.e[j] = before.e[j]
         /\ Len(tokens) > 1
               => OnlySlotChanged(before.e[i], after.e[i], Tail(tokens))
    ELSE FALSE

\* C15: a successful update changes only the terminal slot.  After update
\* returns normally every node that is neither the slot the path addresses
\* nor inside the value held there before is unchanged: every ancestor
\* keeps its type, a Sequence its length, a Map its keys, but that the
\* parent gains the last key when it was absent.
UpdateChangesOnlyTheSlot ==
    (op = "update" /\ ret.fault = "none")
        => OnlySlotChanged(old_data, data, CallTokens)

\* an update two tokens deep that wrote below a root Map of two keys
SlotChangedBesideSibling ==
    /\ op = "update"
    /\ ret.fault = "none"
    /\ Len(CallTokens) >= 2
    /\ IsMap(old_data)
    /\ Len(old_data.e) = 2
    /\ data # old_data

\* C20: Mutator navigation agrees with Reader navigation.  For a path of
\* two or more tokens, when read resolves the path less its last token to a
\* node (through Map keys and bracketed Sequence indices alike), update
\* applies its final step to that same node; a parent below a Sequence
\* element included.
MutatorNavigationAgrees ==
    (/\ op = "update"
     /\ Len(CallTokens) >= 2
     /\ IsSome(ReadParent(old_data)))
        => ret.parent = ReadParent(old_data)

\* a Map of two keys, under each a Map of one scalar
IsTwoByOne(value) ==
    /\ IsMap(value)
    /\ Len(value.e) = 2
    /\ \A i \in 1..2 :
          /\ IsMap(value.e[i].v)
          /\ Len(value.e[i].v.e) = 1
          /\ value.e[i].v.e[1].v.t = "scalar"

\* C16: as the shipped example states, json::get_paths lists the document
\* root itself as "$" in first place and prefixes every descendant with
\* "$.": of a Map of two keys that each hold a Map of one scalar key it
\* returns 5 paths, "$", then the path of each top-level key followed by the
\* path of its child.
ExampleListsRootFirst ==
    (op = "get_paths" /\ lib = "json" /\ IsTwoByOne(data))
        => /\ Len(ret.val) = 5
           /\ ret.val[1] = <<"$">>
           /\ \A i \in {2, 4} :
                 \E j \in 1..2 :
                    /\ ret.val[i] = <<"$", ".">> \o data.e[j].k
                    /\ ret.val[i + 1] =
                          ret.val[i] \o Dot \o data.e[j].v.e[1].k

\* the path an enumeration gives the root: the label for json_get_paths,
\* none for the other two
RootPath ==
    IF op = "json_get_paths"
    THEN Some(IF IsSome(label) THEN label[1] ELSE <<"$">>)
    ELSE None

\* the nodes of the document, each with the path the enumeration has for it
EnumeratedNodes ==
    {[p |-> RootPath, v |-> data]}
        \cup {[p |-> Some(n.p), v |-> n.v] : n \in NodesBelow(data, RootPath)}

\* the path of the i-th child of node n
PathOfChild(n, i) == ChildPath(n.p, Children(n.v)[i].s)

\* C17: Sequence children are enumerated in index order.  In the output
\* of json::get_paths, json_get_paths and toml get_paths, for every
\* Sequence and positions i < j, the entry of element i comes before the
\* entry of element j.
SequenceChildrenInIndexOrder ==
    op \in {"get_paths", "json_get_paths"}
        => \A n \in EnumeratedNodes :
              IsArray(n.v)
                 => \A i, j \in 1..Len(n.v.e) :
                       (/\ i < j
                        /\ Listed(ret.val, PathOfChild(n, i))
                        /\ Listed(ret.val, PathOfChild(n, j)))
                          => Before(ret.val, PathOfChild(n, i),
                                    PathOfChild(n, j))

\* the entry of node n is right before the entries of its whole subtree
SubtreeFollows(out, n) ==
    LET k == CountNodes(n.v) - 1 IN
    \E at \in Positions(out, n.p[1]) :
       /\ at + k <= Len(out)
       /\ {out[m] : m \in (at + 1)..(at + k)} = PathsBelow(n.v, n.p)

\* the children of node n are all listed, in the node's own order when
\* forward, in the reverse of it otherwise
ChildrenListed(out, n, forward) ==
    /\ \A i \in 1..Len(Children(n.v)) : Listed(out, PathOfChild(n, i))
    /\ \A i, j \in 1..Len(Children(n.v)) :
          i < j => IF forward
                   THEN Before(out, PathOfChild(n, i), PathOfChild(n, j))
                   ELSE Before(out, PathOfChild(n, j), PathOfChild(n, i))

\* C18: order of json::get_paths.  The output is a depth-first pre-order
\* listing, each node's path right before the paths of its whole subtree,
\* and the children of every Map, at the root and below, come in the reverse
\* of the Map's iteration order (last key first).
JsonGetPathsOrder ==
    (op = "get_paths" /\ lib = "json")
        => \A n \in EnumeratedNodes :
              /\ (IsSome(n.p) /\ Listed(ret.val, n.p[1]))
                    => SubtreeFollows(ret.val, n)
              /\ (IsMap(n.v) /\ (n.p = None \/ Listed(ret.val, n.p[1])))
                    => ChildrenListed(ret.val, n, FALSE)

\* json::get_paths of a Map of two keys with a Map of two keys below it
JsonOrderSeen ==
    /\ op = "get_paths"
    /\ lib = "json"
    /\ IsMap(data)
    /\ Len(data.e) = 2
    /\ \E n \in NodesBelow(data, None) : IsMap(n.v) /\ Len(n.v.e) = 2
    /\ Len(ret.val) = 4

\* C19: order of toml get_paths.  The keys of the root table come in the
\* table's iteration order, each right before the paths of its whole
\* subtree and so before the next top-level key; inside every nested table
\* the siblings come in the reverse of the table's iteration order.
TomlGetPathsOrder ==
    (op = "get_paths" /\ lib = "toml")
        => \A n \in EnumeratedNodes :
              /\ IsSome(n.p)
                    => Listed(ret.val, n.p[1]) /\ SubtreeFollows(ret.val, n)
              /\ IsMap(n.v) => ChildrenListed(ret.val, n, n.p = None)

\* toml get_paths of a table of two keys with a table of two keys below it
TomlOrderSeen ==
    /\ op = "get_paths"
    /\ lib = "toml"
    /\ Len(data.e) = 2
    /\ \E n \in NodesBelow(data, None) : IsMap(n.v) /\ Len(n.v.e) = 2
    /\ Len(ret.val) = 4

\* C21: no partial write on failure.  Whenever update aborts with a fault
\* (a missing intermediate node, a parent of the wrong type for the last
\* token, a last index out of range, index digits that do not parse), the
\* document is at the abort exactly the document before the call: the
\* replace at the terminal slot is the only write and it comes after every
\* check.
NoPartialWrite ==
    (op = "update" /\ ret.fault # "none")
        => data = old_data /\ ret.after = None

\* an update that stood on a parent of the wrong type for its last token
\* and aborted, two or more tokens deep
AbortOnWrongParentSeen ==
    /\ op = "update"
    /\ ret.fault \in {"not_object", "not_array", "not_table"}
    /\ Len(CallTokens) >= 2
    /\ IsSome(ret.parent)
    /\ data = old_data

\* C22: update is idempotent.  When update(D, P, sep, V) returned normally,
\* a second call with the same arguments returns normally too, returns V as
\* the displaced value, and leaves the document as the first call left it.
UpdateIsIdempotent ==
    [][(op = "update" /\ ret.fault = "none" /\ op' = "update")
          => (ret'.fault = "none" /\ ret'.val = Some(new_value)
                /\ data' = data)]_vars

\* a second update in a row, below the root, that displaced the value the
\* first one wrote
SecondUpdateSeen ==
    /\ op = "update"
    /\ ret.fault = "none"
    /\ ret.val = Some(new_value)
    /\ Len(CallTokens) >= 2
    /\ data = old_data

====
